---------------------------- MODULE Spec2Model ----------------------------
(***************************************************************************)
(* Retry-and-rate-limit core of the Discord provider                       *)
(* (src/discord/client.go): executeWithRetry, parseRetryAfter and          *)
(* calculateBackoff.                                                       *)
(*                                                                         *)
(* time.Duration is an int64 count of nanoseconds.  TLC's integers are 32  *)
(* bits wide, so an int64 is kept as its two's complement image in eight   *)
(* base-256 limbs, least significant first, and the arithmetic below wraps *)
(* modulo 2^64 exactly as Go's does.                                       *)
(***************************************************************************)
EXTENDS Integers, Sequences, FiniteSets, TLC

-----------------------------------------------------------------------------
(* int64 arithmetic *)

Base == 256

NLimbs == 8

Limbs == 1..NLimbs

Pow2(k) == 2^k

\* 256^k for k in 0..3 (all that a 31-bit natural needs)
PowBase(k) == Base^k

\* int64(n) for a natural n that fits TLC's integers
NatTo64(n) ==
    [i \in Limbs |-> IF i <= 4 THEN (n \div PowBase(i - 1)) % Base ELSE 0]

Zero64 == NatTo64(0)

One64 == NatTo64(1)

RECURSIVE AddCarry(_, _, _)
\* carry into limb i of a + b
AddCarry(a, b, i) ==
    IF i = 1 THEN 0
    ELSE (a[i - 1] + b[i - 1] + AddCarry(a, b, i - 1)) \div Base

\* a + b, wrapping modulo 2^64
Add64(a, b) ==
    [i \in Limbs |-> (a[i] + b[i] + AddCarry(a, b, i)) % Base]

\* -a, wrapping modulo 2^64
Neg64(a) == Add64([i \in Limbs |-> (Base - 1) - a[i]], One64)

RECURSIVE MulColumn(_, _, _, _)
\* sum of a[i] * b[k + 1 - i] for i in 1..j
MulColumn(a, b, k, j) ==
    IF j = 0 THEN 0
    ELSE a[j] * b[k + 1 - j] + MulColumn(a, b, k, j - 1)

RECURSIVE MulCarry(_, _, _)
\* carry into limb k of a * b
MulCarry(a, b, k) ==
    IF k = 1 THEN 0
    ELSE (MulColumn(a, b, k - 1, k - 1) + MulCarry(a, b, k - 1)) \div Base

\* a * b, wrapping modulo 2^64
Mul64(a, b) ==
    [k \in Limbs |-> (MulColumn(a, b, k, k) + MulCarry(a, b, k)) % Base]

\* the sign bit of an int64
IsNeg64(a) == a[NLimbs] >= Base \div 2

\* a < b as unsigned 64-bit values
ULt64(a, b) ==
    \E i \in Limbs : a[i] < b[i] /\ \A j \in (i + 1)..NLimbs : a[j] = b[j]

\* a < b as int64
Lt64(a, b) ==
    IF IsNeg64(a) # IsNeg64(b) THEN IsNeg64(a) ELSE ULt64(a, b)

\* a > b as int64
Gt64(a, b) == Lt64(b, a)

\* 1 << uint(n) on a 64-bit int: a shift count of 64 or more gives 0
Shl1(n) ==
    IF n >= 64 THEN Zero64
    ELSE [i \in Limbs |-> IF i = (n \div 8) + 1 THEN Pow2(n % 8) ELSE 0]

-----------------------------------------------------------------------------
(* time.Duration values *)

Nanosecond == One64

Millisecond == NatTo64(1000000)

Second == NatTo64(1000000000)

\* n * time.Millisecond for an integer n (negative n allowed)
Ms(n) ==
    IF n >= 0 THEN Mul64(NatTo64(n), Millisecond)
    ELSE Neg64(Mul64(NatTo64(-n), Millisecond))

\* n * time.Second
Sec(n) == Mul64(NatTo64(n), Second)

maxRetries == 5

baseBackoff == Mul64(NatTo64(1), Second)

maxBackoff == Mul64(NatTo64(120), Second)

-----------------------------------------------------------------------------
(* calculateBackoff *)

\* mutant: the suggested wait is used only when it exceeds the exponential step
calculateBackoff_MaxOfBoth(attempt, retryAfter) ==
    LET backoff == Mul64(baseBackoff, Shl1(attempt))
        capped  == IF Gt64(backoff, maxBackoff) THEN maxBackoff ELSE backoff
        padded  == Add64(retryAfter, Mul64(NatTo64(500), Millisecond))
    IN  IF /\ Gt64(retryAfter, Zero64)
           /\ Lt64(retryAfter, maxBackoff)
           /\ Gt64(padded, capped)
        THEN padded
        ELSE capped

\* mutant: the exponential step is not clamped to maxBackoff
calculateBackoff_NoCap(attempt, retryAfter) ==
    IF Gt64(retryAfter, Zero64) /\ Lt64(retryAfter, maxBackoff)
    THEN Add64(retryAfter, Mul64(NatTo64(500), Millisecond))
    ELSE Mul64(baseBackoff, Shl1(attempt))

calculateBackoff(attempt, retryAfter) ==
    IF Gt64(retryAfter, Zero64) /\ Lt64(retryAfter, maxBackoff)
    THEN Add64(retryAfter, Mul64(NatTo64(500), Millisecond))
    ELSE LET backoff == Mul64(baseBackoff, Shl1(attempt))
         IN  IF Gt64(backoff, maxBackoff) THEN maxBackoff ELSE backoff

-----------------------------------------------------------------------------
(* float64 seconds, header strings and JSON payloads *)
(* A float64 number of seconds is kept as an integer count of thousandths  *)
(* of a second; every value used below has at most three decimals, for     *)
(* which seconds * float64(time.Second) is exact.  A string is a sequence  *)
(* of one-character strings.                                               *)

DigitChars == <<"0", "1", "2", "3", "4", "5", "6", "7", "8", "9">>

IsDigit(ch) == \E i \in 1..Len(DigitChars) : DigitChars[i] = ch

DigitVal(ch) == (CHOOSE i \in 1..Len(DigitChars) : DigitChars[i] = ch) - 1

RECURSIVE DecVal(_)
\* the value of a sequence of decimal digits
DecVal(s) ==
    IF s = <<>> THEN 0
    ELSE 10 * DecVal(SubSeq(s, 1, Len(s) - 1)) + DigitVal(s[Len(s)])

\* strconv.ParseFloat(s, 64) on [sign] digits [. digits] with at most three
\* decimals: ok is FALSE for a syntax error, milli the value in thousandths
ParseFloat(s) ==
    LET signed == s # <<>> /\ Head(s) \in {"+", "-"}
        body   == IF signed THEN Tail(s) ELSE s
        dots   == {i \in 1..Len(body) : body[i] = "."}
        dot    == IF dots = {} THEN Len(body) + 1 ELSE CHOOSE i \in dots : TRUE
        int    == SubSeq(body, 1, dot - 1)
        frac   == SubSeq(body, dot + 1, Len(body))
        ok     == /\ Cardinality(dots) <= 1
                  /\ Len(int) + Len(frac) >= 1
                  /\ Len(frac) <= 3
                  /\ \A i \in 1..Len(body) : i \in dots \/ IsDigit(body[i])
        mag    == DecVal(int) * 1000 + DecVal(frac) * 10^(3 - Len(frac))
    IN  IF ok
        THEN [ok |-> TRUE, milli |-> IF signed /\ Head(s) = "-" THEN -mag ELSE mag]
        ELSE [ok |-> FALSE, milli |-> 0]

\* time.Duration(seconds * float64(time.Second))
FloatSecondsToDuration(milli) == Ms(milli)

\* A byte slice as json.Unmarshal into RateLimitError sees it:
\*   "nil"     a nil slice
\*   "empty"   no bytes (Unmarshal fails: unexpected end of input)
\*   "invalid" bytes that do not decode into RateLimitError
\*   "object"  a JSON object; RetryAfter is its retry_after, 0 when absent
Bytes(kind, retryAfter) == [kind |-> kind, RetryAfter |-> retryAfter]

NilBytes == Bytes("nil", 0)

EmptyBytes == Bytes("empty", 0)

InvalidBytes == Bytes("invalid", 0)

JSONObject(retryAfter) == Bytes("object", retryAfter)

\* json.Unmarshal(b, &rateLimitErr) == nil
UnmarshalOK(b) == b.kind = "object"

\* the RateLimitError that json.Unmarshal leaves behind
RateLimitError(b) ==
    [RetryAfter |-> IF UnmarshalOK(b) THEN b.RetryAfter ELSE 0]

\* An io.ReadCloser: nil, or a stream whose unread bytes are data and whose
\* Read fails when readErr
NilBody == [isNil |-> TRUE, readErr |-> FALSE, data |-> EmptyBytes]

Stream(data) == [isNil |-> FALSE, readErr |-> FALSE, data |-> data]

FailingStream == [isNil |-> FALSE, readErr |-> TRUE, data |-> EmptyBytes]

\* io.ReadAll(body): the bytes read, the error flag, and the stream afterwards
ReadAll(body) ==
    [body |-> IF body.readErr THEN EmptyBytes ELSE body.data,
     err  |-> body.readErr,
     rest |-> [body EXCEPT !.data = EmptyBytes]]

-----------------------------------------------------------------------------
(* error values *)

NilErr == [type |-> "nil"]

\* fmt.Errorf("...") without %w, or any other non-REST error
ErrorString(msg) == [type |-> "errorString", msg |-> msg]

\* ctx.Err() of a signaled context
ContextError(msg) == [type |-> "context", msg |-> msg]

\* *discordgo.RESTError; hasResponse is Response != nil, Header the value of
\* Response.Header.Get("Retry-After") ("" when the header is absent)
RESTError(hasResponse, status, header, responseBody, body) ==
    [type         |-> "RESTError",
     hasResponse  |-> hasResponse,
     StatusCode   |-> status,
     Header       |-> header,
     ResponseBody |-> responseBody,
     Body         |-> body]

\* fmt.Errorf("max retries (%d) exceeded: %w", maxRetries, err)
WrapMaxRetries(err) ==
    [type |-> "wrapError", msg |-> "max retries exceeded", n |-> maxRetries,
     err  |-> err]

-----------------------------------------------------------------------------
(* parseRetryAfter *)

\* mutant: the pre-read payload is tried before the Retry-After header
parseRetryAfterSource_PayloadFirst(restErr) ==
    LET hdr  == ParseFloat(restErr.Header)
        read == ReadAll(restErr.Body)
    IN  IF ~restErr.hasResponse THEN "nil"
        ELSE IF /\ restErr.ResponseBody.kind # "nil"
                /\ UnmarshalOK(restErr.ResponseBody)
                /\ RateLimitError(restErr.ResponseBody).RetryAfter > 0
             THEN "payload"
        ELSE IF restErr.Header # <<>> /\ hdr.ok THEN "header"
        ELSE IF /\ ~restErr.Body.isNil
                /\ ~read.err
                /\ UnmarshalOK(read.body)
                /\ RateLimitError(read.body).RetryAfter > 0
             THEN "stream"
        ELSE "fallback"

\* the step of parseRetryAfter that answers: "nil", "header", "payload",
\* "stream" or "fallback"
parseRetryAfterSource(restErr) ==
    LET hdr  == ParseFloat(restErr.Header)
        read == ReadAll(restErr.Body)
    IN  IF ~restErr.hasResponse THEN "nil"
        ELSE IF restErr.Header # <<>> /\ hdr.ok THEN "header"
        ELSE IF /\ restErr.ResponseBody.kind # "nil"
                /\ UnmarshalOK(restErr.ResponseBody)
                /\ RateLimitError(restErr.ResponseBody).RetryAfter > 0
             THEN "payload"
        ELSE IF /\ ~restErr.Body.isNil
                /\ ~read.err
                /\ UnmarshalOK(read.body)
                /\ RateLimitError(read.body).RetryAfter > 0
             THEN "stream"
        ELSE "fallback"

parseRetryAfter(restErr) ==
    LET src == parseRetryAfterSource(restErr)
    IN  CASE src = "nil"      -> Mul64(NatTo64(5), Second)
          [] src = "header"   ->
                FloatSecondsToDuration(ParseFloat(restErr.Header).milli)
          [] src = "payload"  ->
                FloatSecondsToDuration(
                    RateLimitError(restErr.ResponseBody).RetryAfter)
          [] src = "stream"   ->
                FloatSecondsToDuration(
                    RateLimitError(ReadAll(restErr.Body).body).RetryAfter)
          [] src = "fallback" -> Mul64(NatTo64(5), Second)

\* whether parseRetryAfter calls io.ReadAll on Response.Body
parseRetryAfterReadsBody(restErr) ==
    /\ parseRetryAfterSource(restErr) \in {"stream", "fallback"}
    /\ ~restErr.Body.isNil

\* restErr after the call: the stream, when read, is at its end
parseRetryAfterEffect(restErr) ==
    IF parseRetryAfterReadsBody(restErr)
    THEN [restErr EXCEPT !.Body = ReadAll(restErr.Body).rest]
    ELSE restErr

-----------------------------------------------------------------------------
(* executeWithRetry *)

\* the executeWithRetry calls of a run; each has its own context and operation
Procs == {1, 2}

\* the result type T: "" is its zero value
ZeroResult == ""

OpResults == {ZeroResult, "ok"}

\* Retry-After header values a 429 response may carry
HeaderFractional == <<"1", ".", "5">>

HeaderZero == <<"0">>

HeaderMalformed == <<"s", "o", "o", "n">>

\* a suggestion of exactly the 120 second ceiling
HeaderCeiling == <<"1", "2", "0">>

\* the 429 failures an operation may return
RateLimitErrors ==
    {RESTError(TRUE, 429, HeaderFractional, JSONObject(3000), NilBody),
     RESTError(TRUE, 429, <<>>, JSONObject(3000), NilBody),
     RESTError(TRUE, 429, HeaderMalformed, NilBytes, Stream(JSONObject(2000))),
     RESTError(TRUE, 429, <<>>, NilBytes, NilBody),
     RESTError(TRUE, 429, HeaderZero, NilBytes, NilBody),
     RESTError(TRUE, 429, HeaderCeiling, JSONObject(3000), NilBody),
     RESTError(TRUE, 429, HeaderMalformed, InvalidBytes, FailingStream)}

\* the other failures: a 404, a REST error without response, a non-REST error
OtherErrors ==
    {RESTError(TRUE, 404, <<>>, InvalidBytes, NilBody),
     RESTError(FALSE, 0, <<>>, NilBytes, NilBody),
     ErrorString("some other error")}

OpErrors == {NilErr} \cup RateLimitErrors \cup OtherErrors

\* what ctx.Err() may be once the context is signaled
ContextErrors ==
    {ContextError("context canceled"),
     ContextError("context deadline exceeded")}

\* mutant: the status code is not tested, every REST response is retried
IsRateLimit_AnyStatus(e) ==
    e.type = "RESTError" /\ e.hasResponse

\* lines 45-46: err is a *discordgo.RESTError with a response of status 429
IsRateLimit(e) ==
    e.type = "RESTError" /\ e.hasResponse /\ e.StatusCode = 429

\* the kind of an invocation's error in the error taxonomy: "nil" (success),
\* "429" (a REST error whose response has status 429) or "other"
ErrorKind(e) ==
    CASE e.type = "nil" -> "nil"
      [] e.type = "RESTError" ->
            IF e.hasResponse /\ e.StatusCode = 429 THEN "429" ELSE "other"
      [] OTHER -> "other"

NotReturned == [result |-> ZeroResult, err |-> [type |-> "unset"]]

VARIABLES
    pc,            \* where each call stands: idle, loop, call, wait, done
    attempt,       \* the loop counter
    result,        \* var result T
    err,           \* var err error
    waitDuration,  \* the duration of the pending wait
    timerFired,    \* whether the time.After channel of the pending wait is ready
    ctxErr,        \* ctx.Err() of the call's context
    ret,           \* what the call returned
    calls,         \* history: invocations of the operation so far
    waits,         \* history: waits ended by their timer so far
    invoked,       \* history: ErrorKind of every invocation's error, in order
    last,          \* history: result and error of the latest invocation
    signaledAt,    \* history: where the call stood when its context was signaled
    backoffPc,     \* a direct calculateBackoff call: idle, ready, returned
    backoffAttempt,     \* its attempt argument
    backoffRetryAfter,  \* its retryAfter argument
    backoffOut,         \* the duration it returned
    operation,     \* each call's operation: the zero value of its result type
                   \* and the results and errors an invocation may return
    nrPc,          \* executeWithRetryNoResult around each call: none, running,
                   \* done
    nrErr,         \* the error executeWithRetryNoResult returned
    parsePc,       \* direct parseRetryAfter calls: idle, ready, once, twice
    parseGiven,    \* the *discordgo.RESTError as it was before the first call
    parseArg,      \* the same error object as it is now
    parseOuts,     \* history: the durations the calls returned, in order
    bodyReads      \* history: io.ReadAll calls made on Response.Body

execVars ==
    <<pc, attempt, result, err, waitDuration, timerFired, ctxErr, ret,
      calls, waits, invoked, last, signaledAt>>

backoffVars == <<backoffPc, backoffAttempt, backoffRetryAfter, backoffOut>>

noResultVars == <<nrPc, nrErr>>

parseVars == <<parsePc, parseGiven, parseArg, parseOuts, bodyReads>>

\* everything that a step of executeWithRetry leaves alone
otherVars == <<backoffVars, parseVars, noResultVars, operation>>

vars == <<execVars, otherVars>>

\* an operation returning (T, error), free in what it returns
GenericOperation ==
    [zero |-> ZeroResult, results |-> OpResults, errors |-> OpErrors]

\* the state on entry of the calls in S (lines 29-32); the other calls never run
InitCalls(S) ==
    /\ pc = [c \in Procs |-> IF c \in S THEN "loop" ELSE "idle"]
    /\ attempt = [c \in Procs |-> 0]
    /\ result = [c \in Procs |-> operation[c].zero]
    /\ err = [c \in Procs |-> NilErr]
    /\ waitDuration = [c \in Procs |-> Zero64]
    /\ timerFired = [c \in Procs |-> FALSE]
    /\ ctxErr \in [Procs -> {NilErr} \cup ContextErrors]
    /\ \A c \in Procs \ S : ctxErr[c] = NilErr
    /\ ret = [c \in Procs |-> NotReturned]
    /\ calls = [c \in Procs |-> 0]
    /\ waits = [c \in Procs |-> 0]
    /\ invoked = [c \in Procs |-> <<>>]
    /\ last = [c \in Procs |-> [result |-> operation[c].zero, err |-> NilErr]]
    /\ signaledAt = [c \in Procs |->
                        IF ctxErr[c] = NilErr THEN "never" ELSE "entry"]

\* mutant: the zero value is returned in place of the result
Return_ZeroResult(c, r, e) ==
    /\ pc' = [pc EXCEPT ![c] = "done"]
    /\ ret' = [ret EXCEPT ![c] = [result |-> ZeroResult, err |-> e]]

\* return r, e
Return(c, r, e) ==
    /\ pc' = [pc EXCEPT ![c] = "done"]
    /\ ret' = [ret EXCEPT ![c] = [result |-> r, err |-> e]]

\* mutant: the last error is returned as it is, not wrapped
Exhausted_Unwrapped(c) ==
    /\ pc[c] = "loop"
    /\ ~(attempt[c] < maxRetries)
    /\ Return(c, result[c], err[c])
    /\ UNCHANGED <<otherVars,
                   attempt, result, err, waitDuration, timerFired, ctxErr,
                   calls, waits, invoked, last, signaledAt>>

\* line 32 fails, line 64: the loop is over
Exhausted(c) ==
    /\ pc[c] = "loop"
    /\ ~(attempt[c] < maxRetries)
    /\ Return(c, result[c], WrapMaxRetries(err[c]))
    /\ UNCHANGED <<otherVars,
                   attempt, result, err, waitDuration, timerFired, ctxErr,
                   calls, waits, invoked, last, signaledAt>>

\* lines 34-36: the context is found signaled at the top of an iteration
ContextCheck(c) ==
    /\ pc[c] = "loop"
    /\ attempt[c] < maxRetries
    /\ ctxErr[c] # NilErr
    /\ Return(c, result[c], ctxErr[c])
    /\ UNCHANGED <<otherVars,
                   attempt, result, err, waitDuration, timerFired, ctxErr,
                   calls, waits, invoked, last, signaledAt>>

\* mutant: the operation is invoked without looking at the context
Invoke_Unchecked(c) ==
    /\ pc[c] = "loop"
    /\ attempt[c] < maxRetries
    /\ pc' = [pc EXCEPT ![c] = "call"]
    /\ calls' = [calls EXCEPT ![c] = @ + 1]
    /\ UNCHANGED <<otherVars,
                   attempt, result, err, waitDuration, timerFired, ctxErr,
                   ret, waits, invoked, last, signaledAt>>

\* mutant: the context is looked at before the first attempt only
Invoke_CheckedOnEntryOnly(c) ==
    /\ pc[c] = "loop"
    /\ attempt[c] < maxRetries
    /\ attempt[c] > 0 \/ ctxErr[c] = NilErr
    /\ pc' = [pc EXCEPT ![c] = "call"]
    /\ calls' = [calls EXCEPT ![c] = @ + 1]
    /\ UNCHANGED <<otherVars,
                   attempt, result, err, waitDuration, timerFired, ctxErr,
                   ret, waits, invoked, last, signaledAt>>

\* line 38: the operation is invoked
Invoke(c) ==
    /\ pc[c] = "loop"
    /\ attempt[c] < maxRetries
    /\ ctxErr[c] = NilErr
    /\ pc' = [pc EXCEPT ![c] = "call"]
    /\ calls' = [calls EXCEPT ![c] = @ + 1]
    /\ UNCHANGED <<otherVars,
                   attempt, result, err, waitDuration, timerFired, ctxErr,
                   ret, waits, invoked, last, signaledAt>>

\* mutant: after the last attempt the loop is left without waiting
OperationReturns_NoFinalWait(c) ==
    /\ pc[c] = "call"
    /\ \E r \in operation[c].results, e \in operation[c].errors :
        /\ result' = [result EXCEPT ![c] = r]
        /\ err' = [err EXCEPT ![c] = e]
        /\ invoked' = [invoked EXCEPT ![c] = Append(@, ErrorKind(e))]
        /\ last' = [last EXCEPT ![c] = [result |-> r, err |-> e]]
        /\ IF e = NilErr
           THEN /\ Return(c, r, NilErr)
                /\ UNCHANGED <<waitDuration, timerFired, attempt>>
           ELSE IF IsRateLimit(e) /\ attempt[c] = maxRetries - 1
           THEN /\ attempt' = [attempt EXCEPT ![c] = @ + 1]
                /\ pc' = [pc EXCEPT ![c] = "loop"]
                /\ UNCHANGED <<waitDuration, timerFired, ret>>
           ELSE IF IsRateLimit(e)
           THEN /\ waitDuration' = [waitDuration EXCEPT ![c] =
                        calculateBackoff(attempt[c], parseRetryAfter(e))]
                /\ timerFired' = [timerFired EXCEPT ![c] = FALSE]
                /\ pc' = [pc EXCEPT ![c] = "wait"]
                /\ UNCHANGED <<ret, attempt>>
           ELSE /\ Return(c, r, e)
                /\ UNCHANGED <<waitDuration, timerFired, attempt>>
    /\ UNCHANGED <<ctxErr, calls, waits, signaledAt, otherVars>>

\* the wait never shrinks: the longest wait computed so far is kept
OperationReturns_LongestWaitSoFar(c) ==
    /\ pc[c] = "call"
    /\ \E r \in operation[c].results, e \in operation[c].errors :
        /\ result' = [result EXCEPT ![c] = r]
        /\ err' = [err EXCEPT ![c] = e]
        /\ invoked' = [invoked EXCEPT ![c] = Append(@, ErrorKind(e))]
        /\ last' = [last EXCEPT ![c] = [result |-> r, err |-> e]]
        /\ IF e = NilErr
           THEN /\ Return(c, r, NilErr)
                /\ UNCHANGED <<waitDuration, timerFired>>
           ELSE IF IsRateLimit(e)
           THEN /\ waitDuration' = [waitDuration EXCEPT ![c] =
                        LET d == calculateBackoff(attempt[c],
                                                  parseRetryAfter(e))
                        IN  IF Gt64(@, d) THEN @ ELSE d]
                /\ timerFired' = [timerFired EXCEPT ![c] = FALSE]
                /\ pc' = [pc EXCEPT ![c] = "wait"]
                /\ UNCHANGED ret
           ELSE /\ Return(c, r, e)
                /\ UNCHANGED <<waitDuration, timerFired>>
    /\ UNCHANGED <<attempt, ctxErr, calls, waits, signaledAt, otherVars>>

\* lines 38-61: the operation returns r, e and the loop body acts on it
OperationReturns(c) ==
    /\ pc[c] = "call"
    /\ \E r \in operation[c].results, e \in operation[c].errors :
        /\ result' = [result EXCEPT ![c] = r]
        /\ err' = [err EXCEPT ![c] = e]
        /\ invoked' = [invoked EXCEPT ![c] = Append(@, ErrorKind(e))]
        /\ last' = [last EXCEPT ![c] = [result |-> r, err |-> e]]
        /\ IF e = NilErr
           THEN /\ Return(c, r, NilErr)
                /\ UNCHANGED <<waitDuration, timerFired>>
           ELSE IF IsRateLimit(e)
           THEN /\ waitDuration' = [waitDuration EXCEPT ![c] =
                        calculateBackoff(attempt[c], parseRetryAfter(e))]
                /\ timerFired' = [timerFired EXCEPT ![c] = FALSE]
                /\ pc' = [pc EXCEPT ![c] = "wait"]
                /\ UNCHANGED ret
           ELSE /\ Return(c, r, e)
                /\ UNCHANGED <<waitDuration, timerFired>>
    /\ UNCHANGED <<attempt, ctxErr, calls, waits, signaledAt, otherVars>>

\* the runtime: waitDuration has elapsed, the time.After channel is ready
TimerFires(c) ==
    /\ pc[c] = "wait"
    /\ ~timerFired[c]
    /\ timerFired' = [timerFired EXCEPT ![c] = TRUE]
    /\ UNCHANGED <<otherVars,
                   pc, attempt, result, err, waitDuration, ctxErr, ret,
                   calls, waits, invoked, last, signaledAt>>

\* mutant: the ctx.Done() branch returns err, not ctx.Err()
SelectDone_ReturnsErr(c) ==
    /\ pc[c] = "wait"
    /\ ctxErr[c] # NilErr
    /\ Return(c, result[c], err[c])
    /\ UNCHANGED <<otherVars,
                   attempt, result, err, waitDuration, timerFired, ctxErr,
                   calls, waits, invoked, last, signaledAt>>

\* lines 52-53: select takes the ctx.Done() branch
SelectDone(c) ==
    /\ pc[c] = "wait"
    /\ ctxErr[c] # NilErr
    /\ Return(c, result[c], ctxErr[c])
    /\ UNCHANGED <<otherVars,
                   attempt, result, err, waitDuration, timerFired, ctxErr,
                   calls, waits, invoked, last, signaledAt>>

\* mutant: the loop goes round without counting the attempt
SelectTimer_NoIncrement(c) ==
    /\ pc[c] = "wait"
    /\ timerFired[c]
    /\ waits' = [waits EXCEPT ![c] = @ + 1]
    /\ pc' = [pc EXCEPT ![c] = "loop"]
    /\ UNCHANGED <<otherVars,
                   attempt, result, err, waitDuration, timerFired, ctxErr, ret,
                   calls, invoked, last, signaledAt>>

\* mutant: the select has no timer branch, only cancellation ends a wait
SelectTimer_Missing(c) ==
    /\ pc[c] = "wait"
    /\ FALSE
    /\ UNCHANGED vars

\* mutant: attempt is one counter shared by all calls (a package-level var)
SelectTimer_SharedCounter(c) ==
    /\ pc[c] = "wait"
    /\ timerFired[c]
    /\ attempt' = [d \in Procs |-> attempt[d] + 1]
    /\ waits' = [waits EXCEPT ![c] = @ + 1]
    /\ pc' = [pc EXCEPT ![c] = "loop"]
    /\ UNCHANGED <<otherVars,
                   result, err, waitDuration, timerFired, ctxErr, ret,
                   calls, invoked, last, signaledAt>>

\* lines 54-55 and the attempt++ of line 32: select takes the timer branch
SelectTimer(c) ==
    /\ pc[c] = "wait"
    /\ timerFired[c]
    /\ attempt' = [attempt EXCEPT ![c] = @ + 1]
    /\ waits' = [waits EXCEPT ![c] = @ + 1]
    /\ pc' = [pc EXCEPT ![c] = "loop"]
    /\ UNCHANGED <<otherVars,
                   result, err, waitDuration, timerFired, ctxErr, ret,
                   calls, invoked, last, signaledAt>>

\* the caller's side: the context of a running call is cancelled or expires
Cancel(c) ==
    /\ pc[c] \in {"loop", "call", "wait"}
    /\ ctxErr[c] = NilErr
    /\ \E e \in ContextErrors : ctxErr' = [ctxErr EXCEPT ![c] = e]
    /\ signaledAt' = [signaledAt EXCEPT ![c] = pc[c]]
    /\ UNCHANGED <<otherVars,
                   pc, attempt, result, err, waitDuration, timerFired, ret,
                   calls, waits, invoked, last>>

\* no direct call of calculateBackoff is made
BackoffIdle ==
    /\ backoffPc = "idle"
    /\ backoffAttempt = 0
    /\ backoffRetryAfter = Zero64
    /\ backoffOut = Zero64

\* no direct call of parseRetryAfter is made
ParseIdle ==
    /\ parsePc = "idle"
    /\ parseGiven = RESTError(FALSE, 0, <<>>, NilBytes, NilBody)
    /\ parseArg = parseGiven
    /\ parseOuts = <<>>
    /\ bodyReads = 0

\* no call goes through executeWithRetryNoResult
NoResultIdle ==
    /\ nrPc = [c \in Procs |-> "none"]
    /\ nrErr = [c \in Procs |-> NilErr]

\* one executeWithRetry call
Init ==
    /\ operation = [c \in Procs |-> GenericOperation]
    /\ InitCalls({1})
    /\ BackoffIdle
    /\ ParseIdle
    /\ NoResultIdle

Next ==
    \/ Exhausted(1)
    \/ ContextCheck(1)
    \/ Invoke(1)
    \/ OperationReturns(1)
    \/ TimerFires(1)
    \/ SelectDone(1)
    \/ SelectTimer(1)
    \/ Cancel(1)

Spec == Init /\ [][Next]_vars

\* the steps of call c that the Go runtime takes whenever they are possible
Step(c) ==
    \/ Exhausted(c)
    \/ ContextCheck(c)
    \/ Invoke(c)
    \/ OperationReturns(c)
    \/ TimerFires(c)
    \/ SelectDone(c)
    \/ SelectTimer(c)

\* one call whose goroutine keeps running, whose operation always returns and
\* whose timers fire; the caller is free never to cancel
LiveSpec == Init /\ [][Next]_vars /\ WF_vars(Step(1))

-----------------------------------------------------------------------------
(* two concurrent executeWithRetry calls *)

\* the operation of the first call: succeeds, is rate limited without a usable
\* suggestion, or fails otherwise
FirstOperation ==
    [zero    |-> ZeroResult,
     results |-> {"ok"},
     errors  |-> {NilErr,
                  RESTError(TRUE, 429, HeaderZero, NilBytes, NilBody),
                  ErrorString("some other error")}]

\* the operation of the second call: another result and other failures
SecondOperation ==
    [zero    |-> ZeroResult,
     results |-> {ZeroResult},
     errors  |-> {NilErr,
                  RESTError(TRUE, 429, <<>>, JSONObject(3000), NilBody),
                  RESTError(TRUE, 404, <<>>, InvalidBytes, NilBody)}]

ConcInit ==
    /\ operation =
          [c \in Procs |-> IF c = 1 THEN FirstOperation ELSE SecondOperation]
    /\ InitCalls(Procs)
    /\ BackoffIdle
    /\ ParseIdle
    /\ NoResultIdle

\* the two calls run in their own goroutines with their own contexts
ConcNext == \E c \in Procs : Step(c) \/ Cancel(c)

ConcSpec == ConcInit /\ [][ConcNext]_vars

-----------------------------------------------------------------------------
(* executeWithRetryNoResult *)

\* struct{}{}, the only value of the placeholder result type
Unit == "struct{}{}"

\* lines 69-71: func() (struct{}, error) { return struct{}{}, operation() }
\* around an operation func() error that is free in the error it returns
AdaptedOperation ==
    [zero |-> Unit, results |-> {Unit}, errors |-> OpErrors]

\* executeWithRetryNoResult has entered executeWithRetry as call 1
NoResultInit ==
    /\ operation =
          [c \in Procs |-> IF c = 1 THEN AdaptedOperation ELSE GenericOperation]
    /\ InitCalls({1})
    /\ BackoffIdle
    /\ ParseIdle
    /\ nrPc = [c \in Procs |-> IF c = 1 THEN "running" ELSE "none"]
    /\ nrErr = [c \in Procs |-> NilErr]

\* mutant: the error of executeWithRetry is dropped with the placeholder
NoResultReturns_ErrorDropped(c) ==
    /\ nrPc[c] = "running"
    /\ pc[c] = "done"
    /\ nrErr' = [nrErr EXCEPT ![c] = NilErr]
    /\ nrPc' = [nrPc EXCEPT ![c] = "done"]
    /\ UNCHANGED <<execVars, backoffVars, parseVars, operation>>

\* lines 69 and 72: executeWithRetry has returned; _, err := ...; return err
NoResultReturns(c) ==
    /\ nrPc[c] = "running"
    /\ pc[c] = "done"
    /\ nrErr' = [nrErr EXCEPT ![c] = ret[c].err]
    /\ nrPc' = [nrPc EXCEPT ![c] = "done"]
    /\ UNCHANGED <<execVars, backoffVars, parseVars, operation>>

NoResultNext ==
    \/ Exhausted(1)
    \/ ContextCheck(1)
    \/ Invoke(1)
    \/ OperationReturns(1)
    \/ TimerFires(1)
    \/ SelectDone(1)
    \/ SelectTimer(1)
    \/ Cancel(1)
    \/ NoResultReturns(1)

NoResultSpec == NoResultInit /\ [][NoResultNext]_vars

-----------------------------------------------------------------------------
(* calculateBackoff called directly *)

\* the largest attempt index tried
MaxAttemptArg == 66

MinInt64 == [i \in Limbs |-> IF i = NLimbs THEN Base \div 2 ELSE 0]

MaxInt64 == [i \in Limbs |-> IF i = NLimbs THEN Base \div 2 - 1 ELSE Base - 1]

\* suggested waits around every threshold of calculateBackoff
RetryAfterSamples ==
    UNION {{d, Add64(d, Nanosecond), Add64(d, Neg64(Nanosecond))} :
             d \in {Zero64, Ms(1), Ms(1500), Sec(3), Sec(5), Sec(119),
                    maxBackoff, Sec(200)}}
      \cup {Ms(-1000), MinInt64, MaxInt64}

BackoffInit ==
    /\ operation = [c \in Procs |-> GenericOperation]
    /\ InitCalls({})
    /\ ParseIdle
    /\ NoResultIdle
    /\ backoffPc = "ready"
    /\ backoffAttempt \in 0..MaxAttemptArg
    /\ backoffRetryAfter \in RetryAfterSamples
    /\ backoffOut = Zero64

\* calculateBackoff(backoffAttempt, backoffRetryAfter) returns
CalculateBackoffCall ==
    /\ backoffPc = "ready"
    /\ backoffOut' = calculateBackoff(backoffAttempt, backoffRetryAfter)
    /\ backoffPc' = "returned"
    /\ UNCHANGED <<execVars, backoffAttempt, backoffRetryAfter,
                   parseVars, noResultVars, operation>>

BackoffNext == CalculateBackoffCall

BackoffSpec == BackoffInit /\ [][BackoffNext]_vars

-----------------------------------------------------------------------------
(* parseRetryAfter called directly, twice on the same error *)

HeaderInteger == <<"5">>

HeaderNegative == <<"-", "1">>

HeaderLoneDot == <<".">>

ParseHeaders ==
    {<<>>, HeaderInteger, HeaderFractional, HeaderZero, HeaderNegative,
     HeaderMalformed, HeaderLoneDot}

ParsePayloads ==
    {NilBytes, EmptyBytes, InvalidBytes,
     JSONObject(3000), JSONObject(0), JSONObject(-1000)}

ParseBodies ==
    {NilBody, FailingStream, Stream(EmptyBytes), Stream(InvalidBytes),
     Stream(JSONObject(2000)), Stream(JSONObject(0))}

\* the errors parseRetryAfter is called on: with a response, any header,
\* payload and body; without one, any payload
ParseInputs ==
    {RESTError(TRUE, 429, h, p, b) :
        h \in ParseHeaders, p \in ParsePayloads, b \in ParseBodies}
      \cup {RESTError(FALSE, 0, <<>>, p, NilBody) : p \in ParsePayloads}

ParseInit ==
    /\ operation = [c \in Procs |-> GenericOperation]
    /\ InitCalls({})
    /\ BackoffIdle
    /\ NoResultIdle
    /\ parsePc = "ready"
    /\ parseGiven \in ParseInputs
    /\ parseArg = parseGiven
    /\ parseOuts = <<>>
    /\ bodyReads = 0

\* parseRetryAfter(parseArg) returns; the error object keeps what the call
\* did to its Response.Body
ParseRetryAfterCall ==
    /\ parsePc \in {"ready", "once"}
    /\ parseOuts' = Append(parseOuts, parseRetryAfter(parseArg))
    /\ parseArg' = parseRetryAfterEffect(parseArg)
    /\ bodyReads' =
          bodyReads + (IF parseRetryAfterReadsBody(parseArg) THEN 1 ELSE 0)
    /\ parsePc' = IF parsePc = "ready" THEN "once" ELSE "twice"
    /\ UNCHANGED <<execVars, backoffVars, noResultVars, operation, parseGiven>>

ParseNext == ParseRetryAfterCall

ParseSpec == ParseInit /\ [][ParseNext]_vars

-----------------------------------------------------------------------------
(* Properties of executeWithRetry *)

Returned(c) == pc[c] = "done"

LastKind(c) == invoked[c][Len(invoked[c])]

AllRateLimited(c) == \A i \in 1..Len(invoked[c]) : invoked[c][i] = "429"

\* C1: when every invocation fails with a 429 and the context is never
\* signaled, a call that has returned has invoked the operation exactly 5
\* times and returns the "max retries exceeded" error wrapping the error of
\* the fifth invocation; no such call ever invokes more than 5 times.
C1_ExhaustedAfterFive ==
    \A c \in Procs :
        (ctxErr[c] = NilErr /\ AllRateLimited(c)) =>
            /\ calls[c] <= 5
            /\ Returned(c) =>
                /\ calls[c] = 5
                /\ Len(invoked[c]) = 5
                /\ ret[c].err.type = "wrapError"
                /\ ret[c].err.msg = "max retries exceeded"
                /\ ret[c].err.n = 5
                /\ ret[c].err.err = last[c].err

C1_Witness ==
    /\ Returned(1)
    /\ ctxErr[1] = NilErr
    /\ AllRateLimited(1)
    /\ calls[1] = 5
    /\ ret[1].err.type = "wrapError"

\* C2: as soon as an invocation returns an error that is not a 429 REST error,
\* the call has returned that very error, unwrapped, with no wait after it and
\* no further invocation, on the first invocation and after earlier 429s alike.
C2_OtherErrorReturnedAtOnce ==
    \A c \in Procs :
        (invoked[c] # <<>> /\ LastKind(c) = "other") =>
            /\ Returned(c)
            /\ ret[c].err = last[c].err
            /\ ret[c].err \in OtherErrors
            /\ calls[c] = Len(invoked[c])
            /\ waits[c] = Len(invoked[c]) - 1

C2_Witness ==
    /\ Returned(1)
    /\ Len(invoked[1]) = 3
    /\ LastKind(1) = "other"
    /\ ret[1].err.type = "RESTError"
    /\ ret[1].err.StatusCode = 404

\* C3: as soon as an invocation succeeds, the call has returned that
\* invocation's result with a nil error and invokes nothing more: after k
\* rate-limited failures the operation has been invoked exactly k + 1 times.
C3_SuccessReturnedAtOnce ==
    \A c \in Procs :
        (invoked[c] # <<>> /\ LastKind(c) = "nil") =>
            /\ Returned(c)
            /\ ret[c] = [result |-> last[c].result, err |-> NilErr]
            /\ calls[c] = Len(invoked[c])
            /\ waits[c] = Len(invoked[c]) - 1
            /\ Len(invoked[c]) <= 5

C3_Witness ==
    /\ Returned(1)
    /\ ret[1] = [result |-> "ok", err |-> NilErr]
    /\ calls[1] = 4
    /\ waits[1] = 3

\* C4: a call entered with an already signaled context never invokes the
\* operation and never waits, and what it returns is the context's error.
C4_CancelledOnEntry ==
    \A c \in Procs :
        signaledAt[c] = "entry" =>
            /\ calls[c] = 0
            /\ waits[c] = 0
            /\ invoked[c] = <<>>
            /\ pc[c] \in {"loop", "done"}
            /\ Returned(c) => (ret[c].err = ctxErr[c] /\ ret[c].err \in ContextErrors)

C4_Witness ==
    /\ Returned(1)
    /\ signaledAt[1] = "entry"
    /\ ret[1].err = ContextError("context canceled")

\* C5: a call whose context was signaled before it returned returns the
\* context's error, whatever else was ready to be returned.
C5_CancellationAlwaysWins ==
    \A c \in Procs :
        (Returned(c) /\ ctxErr[c] # NilErr) => ret[c].err = ctxErr[c]

\* C6: a call whose context was signaled during an inter-attempt wait returns
\* the context's error, whichever branch of the select ended that wait.
C6_CancelDuringWaitHonoured ==
    \A c \in Procs :
        (Returned(c) /\ signaledAt[c] = "wait") => ret[c].err = ctxErr[c]

\* C7: the attempt counter stays within 0..5, counts the completed loop
\* iterations, moves only by +1 (when a wait's timer branch continues the
\* loop), and the operation is never invoked more than 5 times.
C7_AttemptCounter ==
    /\ [](\A c \in Procs :
            /\ attempt[c] \in 0..5
            /\ attempt[c] = waits[c]
            /\ calls[c] \in {attempt[c], attempt[c] + 1}
            /\ calls[c] <= 5)
    /\ [][\A c \in Procs :
            \/ attempt'[c] = attempt[c]
            \/ /\ attempt'[c] = attempt[c] + 1
               /\ pc[c] = "wait"
               /\ pc'[c] = "loop"]_vars

C7_Witness ==
    /\ attempt[1] = 5
    /\ calls[1] = 5
    /\ pc[1] = "loop"

RetSuccess(c) == ret[c].err = NilErr

RetOtherError(c) == ret[c].err \in OtherErrors

RetCancelled(c) == ret[c].err \in ContextErrors

RetExhausted(c) == ret[c].err.type = "wrapError"

\* C8: if the operation always returns and the timers fire, the call
\* eventually returns, and what it returns is exactly one of: success, a
\* non-rate-limit error, the context's error, the retry-exhausted error.
C8_Terminates ==
    /\ <>Returned(1)
    /\ [](Returned(1) =>
            Cardinality({k \in 1..4 :
                \/ k = 1 /\ RetSuccess(1)
                \/ k = 2 /\ RetOtherError(1)
                \/ k = 3 /\ RetCancelled(1)
                \/ k = 4 /\ RetExhausted(1)}) = 1)

C8_Witness ==
    /\ Returned(1)
    /\ signaledAt[1] = "wait"
    /\ attempt[1] = 2
    /\ RetCancelled(1)

\* C9: a call never returns a 429 REST error as its error; a 429 reaches the
\* caller only inside the retry-exhausted error, which is returned only after 5
\* rate-limited invocations and equals no operation error and no context error.
C9_No429Surfaced ==
    \A c \in Procs :
        Returned(c) =>
            /\ ErrorKind(ret[c].err) # "429"
            /\ ret[c].err.type = "wrapError" =>
                /\ Len(invoked[c]) = 5
                /\ AllRateLimited(c)
                /\ ErrorKind(ret[c].err.err) = "429"
                /\ ret[c].err \notin OpErrors \cup ContextErrors
            /\ (invoked[c] # <<>> /\ LastKind(c) = "429") =>
                ret[c].err.type \in {"wrapError", "context"}

C9_Witness ==
    /\ Returned(1)
    /\ ret[1].err.type = "wrapError"
    /\ ErrorKind(ret[1].err.err) = "429"
    /\ waits[1] = 5

\* C16: once the context has been signaled during an inter-attempt wait, no
\* step invokes the operation again, whichever branch ends the wait.
C16_NoInvocationAfterCancelledWait ==
    [][\A c \in Procs :
          signaledAt[c] = "wait" =>
              (calls'[c] = calls[c] /\ pc'[c] # "call")]_vars

\* the wait was cancelled and yet ended by its timer: two waits completed
C16_Witness ==
    /\ Returned(1)
    /\ signaledAt[1] = "wait"
    /\ waits[1] = 2
    /\ calls[1] = 2
    /\ RetCancelled(1)

\* C19: a call that returns from the context check at the top of an iteration
\* (the context's error, with as many invocations as completed iterations)
\* returns the zero value of the result type.
C19_CancelledWithZeroResult ==
    \A c \in Procs :
        (Returned(c) /\ RetCancelled(c) /\ calls[c] = attempt[c]) =>
            ret[c].result = operation[c].zero

\* the rate-limited invocations of call c so far
Count429(c) == Cardinality({i \in 1..Len(invoked[c]) : invoked[c][i] = "429"})

\* C20: while the context is not signaled, the completed waits are as many as
\* the rate-limited invocations (less the wait in progress); a retry-exhausted
\* return comes after exactly 5 invocations and 5 completed waits, the last
\* wait being calculateBackoff(4, ...) of the fifth error.
C20_WaitAfterEvery429 ==
    \A c \in Procs :
        ctxErr[c] = NilErr =>
            /\ waits[c] = Count429(c) - (IF pc[c] = "wait" THEN 1 ELSE 0)
            /\ (Returned(c) /\ RetExhausted(c)) =>
                /\ calls[c] = 5
                /\ Len(invoked[c]) = 5
                /\ waits[c] = 5
                /\ waitDuration[c] =
                      calculateBackoff(4, parseRetryAfter(last[c].err))

C20_Witness ==
    /\ Returned(1)
    /\ ctxErr[1] = NilErr
    /\ RetExhausted(1)
    /\ waits[1] = 5
    /\ last[1].err.Header = HeaderZero
    /\ waitDuration[1] = Sec(16)

\* the error carries no Retry-After header that is a number and no retry_after
\* payload > 0, pre-read or read from the body stream
NoUsableSignal(e) ==
    ~(e.hasResponse /\ e.Header # <<>> /\ ParseFloat(e.Header).ok)
    /\ ~(e.ResponseBody.kind = "object" /\ e.ResponseBody.RetryAfter > 0)
    /\ ~(/\ e.hasResponse
         /\ ~e.Body.isNil
         /\ ~e.Body.readErr
         /\ e.Body.data.kind = "object"
         /\ e.Body.data.RetryAfter > 0)

-----------------------------------------------------------------------------
(* Properties of calculateBackoff *)

\* C10: for every attempt index and every suggested wait d with 0 < d < 120s,
\* calculateBackoff(attempt, d) is d + 500ms.
C10_SuggestedWaitPlusBuffer ==
    (/\ backoffPc = "returned"
     /\ Gt64(backoffRetryAfter, Zero64)
     /\ Lt64(backoffRetryAfter, Sec(120))) =>
        backoffOut = Add64(backoffRetryAfter, Ms(500))

C10_Witness ==
    /\ backoffPc = "returned"
    /\ backoffAttempt = 40
    /\ backoffRetryAfter = Add64(Sec(120), Neg64(Nanosecond))
    /\ backoffOut = Add64(Ms(120500), Neg64(Nanosecond))

\* a suggested wait that calculateBackoff does not use: d <= 0 or d >= 120s
Unreasonable(d) == ~Gt64(d, Zero64) \/ ~Lt64(d, Sec(120))

\* min(1s * 2^attempt, 120s) as a number: 2^7 s is already above 120s
ExponentialCapped(n) ==
    IF n >= 7 THEN Sec(120) ELSE Sec(2^n)

\* C11: for every attempt index >= 0 and every suggested wait d with d <= 0
\* or d >= 120s, calculateBackoff(attempt, d) is min(1s * 2^attempt, 120s).
C11_ExponentialCappedAtCeiling ==
    (backoffPc = "returned" /\ Unreasonable(backoffRetryAfter)) =>
        backoffOut = ExponentialCapped(backoffAttempt)

\* C18 as stated: calculateBackoff never returns more than 120s.
C18_NeverAboveCeiling ==
    backoffPc = "returned" => ~Gt64(backoffOut, Sec(120))

\* C18: calculateBackoff never returns more than the 120s ceiling plus the
\* 500ms buffer: a suggested wait d with 0 < d < 120s gives d + 500ms, which is
\* below 120.5s, and every other result is at most 120s.
C18_NeverAboveCeilingPlusBuffer ==
    backoffPc = "returned" =>
        /\ Lt64(backoffOut, Ms(120500))
        /\ Unreasonable(backoffRetryAfter) => ~Gt64(backoffOut, Sec(120))

C18_Witness ==
    /\ backoffPc = "returned"
    /\ backoffAttempt = 3
    /\ backoffRetryAfter = Add64(Sec(120), Neg64(Nanosecond))
    /\ Gt64(backoffOut, Sec(120))

-----------------------------------------------------------------------------
(* Properties of parseRetryAfter *)

\* the Retry-After header is present and is a number
HeaderUsable(e) ==
    e.hasResponse /\ e.Header # <<>> /\ ParseFloat(e.Header).ok

\* the pre-read payload decodes and its retry_after is > 0
PayloadUsable(e) ==
    e.ResponseBody.kind = "object" /\ e.ResponseBody.RetryAfter > 0

\* the response body stream can be read, decodes, and its retry_after is > 0
StreamUsable(e) ==
    /\ e.hasResponse
    /\ ~e.Body.isNil
    /\ ~e.Body.readErr
    /\ e.Body.data.kind = "object"
    /\ e.Body.data.RetryAfter > 0

\* the first usable signal in the order header, payload, stream, 5 seconds,
\* where headerCounts says which usable headers are taken
FirstSignal(e, headerCounts) ==
    IF ~e.hasResponse THEN Sec(5)
    ELSE IF HeaderUsable(e) /\ headerCounts
         THEN Ms(ParseFloat(e.Header).milli)
    ELSE IF PayloadUsable(e) THEN Ms(e.ResponseBody.RetryAfter)
    ELSE IF StreamUsable(e) THEN Ms(e.Body.data.RetryAfter)
    ELSE Sec(5)

\* C12 as stated: the header wins whenever it is a number, and a non-positive
\* signal, the header's included, falls through to the next source.
C12_FirstPositiveSignal ==
    parseOuts # <<>> =>
        parseOuts[1] =
            FirstSignal(parseGiven, ParseFloat(parseGiven.Header).milli > 0)

\* C12: parseRetryAfter returns the first usable signal in the order header
\* (whenever present and a number, of any sign), pre-read payload (decodes,
\* > 0), response body stream (decodes, > 0), else 5 seconds; 5 seconds too
\* when there is no response.  Only a missing or malformed header falls through.
C12_FirstSignal ==
    parseOuts # <<>> => parseOuts[1] = FirstSignal(parseGiven, TRUE)

C12_Witness ==
    /\ parsePc = "once"
    /\ parseGiven.Header = HeaderFractional
    /\ parseGiven.ResponseBody = JSONObject(3000)
    /\ parseOuts = <<Ms(1500)>>

\* C13: two parseRetryAfter calls on the same error return the same duration.
C13_SameDurationTwice ==
    parsePc = "twice" => parseOuts[1] = parseOuts[2]

\* C17: when a pre-read payload is attached (ResponseBody is not nil), whatever
\* its content, parseRetryAfter leaves the response body stream unread.
C17_StreamUnreadWhenPayloadAttached ==
    parseGiven.ResponseBody.kind # "nil" =>
        (bodyReads = 0 /\ parseArg.Body = parseGiven.Body)

-----------------------------------------------------------------------------
(* Properties of executeWithRetryNoResult *)

\* C14: what executeWithRetryNoResult returns is exactly the error that
\* executeWithRetry returned for the adapted operation, whose result is the
\* placeholder; the operation was invoked once per iteration of that call and
\* waited for once per completed wait; the error is nil exactly when the last
\* invocation of the operation succeeded.
C14_NoResultSameError ==
    \A c \in Procs :
        nrPc[c] = "done" =>
            /\ Returned(c)
            /\ nrErr[c] = ret[c].err
            /\ ret[c].result = Unit
            /\ calls[c] = Len(invoked[c])
            /\ waits[c] = attempt[c]
            /\ nrErr[c] = NilErr <=> (invoked[c] # <<>> /\ LastKind(c) = "nil")
            /\ (invoked[c] # <<>> /\ LastKind(c) = "other") =>
                  nrErr[c] = last[c].err
            /\ (ctxErr[c] = NilErr /\ invoked[c] # <<>> /\ LastKind(c) = "429") =>
                  nrErr[c] = WrapMaxRetries(last[c].err)

C14_Witness ==
    /\ nrPc[1] = "done"
    /\ nrErr[1].type = "wrapError"
    /\ calls[1] = 5
    /\ ret[1].result = Unit

-----------------------------------------------------------------------------
(* Properties of concurrent calls *)

\* everything call c owns
Own(c) ==
    <<pc[c], attempt[c], result[c], err[c], waitDuration[c], timerFired[c],
      ctxErr[c], ret[c], calls[c], waits[c], invoked[c], last[c],
      signaledAt[c]>>

\* C15: under every interleaving of two calls, every step is one call's and
\* leaves all that the other call owns as it was; each call keeps the counters
\* and returns the outcome of a call running alone (C1 to C4 hold of each), and
\* a call returns a context error only when its own context was signaled.
C15_CallsDoNotInterfere ==
    /\ [][\E c \in Procs : \A d \in Procs \ {c} : Own(d)' = Own(d)]_vars
    /\ [](/\ C1_ExhaustedAfterFive
          /\ C2_OtherErrorReturnedAtOnce
          /\ C3_SuccessReturnedAtOnce
          /\ C4_CancelledOnEntry
          /\ \A c \in Procs :
                /\ attempt[c] = waits[c]
                /\ calls[c] \in {attempt[c], attempt[c] + 1}
                /\ (Returned(c) /\ ret[c].err \in ContextErrors) =>
                      ret[c].err = ctxErr[c])

C15_Witness ==
    /\ Returned(1)
    /\ Returned(2)
    /\ signaledAt[1] = "wait"
    /\ ret[1].err = ContextError("context canceled")
    /\ ctxErr[2] = NilErr
    /\ ret[2].err.type = "wrapError"
    /\ calls[2] = 5

=============================================================================
